---- MODULE Spec2Model ----
(***************************************************************************)
(* Model of metasim/utils/humanoid_reward_util.py: the sigmoid evaluator   *)
(* (_sigmoids, _sigmoids_tensor) and the tolerance scorer (tolerance,      *)
(* tolerance_tensor).                                                      *)
(*                                                                         *)
(* Numbers are exact: a float is a pair <<n, d>> with d >= 0, in lowest    *)
(* terms.  d > 0 is the rational n/d, <<1, 0>> is +inf, <<-1, 0>> is -inf  *)
(* and <<0, 0>> is NaN, with the IEEE rules for them.  Rounding is not     *)
(* modelled.  The four transcendental shapes are evaluated exactly at      *)
(* integral normalized distances through the identities stated with them;  *)
(* the inputs are drawn so that they are only evaluated there.             *)
(***************************************************************************)
EXTENDS Integers, Sequences, FiniteSets, TLC

VARIABLES
    x,               \* the elements of the input array / tensor
    scalar,          \* TRUE: x is a plain real number (np.isscalar(x)) / a 0-dim tensor
    bounds,          \* <<lower, upper>>
    margin,
    sigmoid,         \* the kind
    value_at_margin,
    value,           \* outcome of tolerance on these inputs
    value_tensor,    \* outcome of tolerance_tensor on these inputs
    filters,         \* warnings.filters: the object the module attribute refers to
    heap,            \* list objects: object id -> sequence of filter actions
    original,        \* the filter list before the first call started
    args,            \* per thread: the arguments of its call
    pc,              \* per thread: position inside the call
    saved,           \* per thread: catch_warnings._filters (an object id)
    warned,          \* per thread: what became of the warning np.cos issued
    outcome          \* per thread: how its call ended

vars == <<x, scalar, bounds, margin, sigmoid, value_at_margin, value, value_tensor,
          filters, heap, original, args, pc, saved, warned, outcome>>

callVars == <<x, scalar, bounds, margin, sigmoid, value_at_margin, value, value_tensor>>

threadVars == <<filters, heap, original, args, pc, saved, warned, outcome>>

----------------------------------------------------------------------------
(* Bounds of the model *)

MaxX == 1        \* elements of x range over -MaxX .. MaxX

MaxLen == 2      \* longest input array

NThreads == 2    \* concurrent calls

----------------------------------------------------------------------------
(* Exact float arithmetic *)

Abs(n) == IF n < 0 THEN -n ELSE n

Sign(n) == IF n > 0 THEN 1 ELSE IF n < 0 THEN -1 ELSE 0

RECURSIVE Gcd(_, _)
Gcd(a, b) == IF b = 0 THEN a ELSE Gcd(b, a % b)

Norm(n, d) ==
    IF d = 0 THEN <<Sign(n), 0>>
    ELSE LET g == Gcd(Abs(n), Abs(d))
             s == Sign(d)
         IN  <<(s * n) \div g, (s * d) \div g>>

Fin(n) == <<n, 1>>

Rat(n, d) == Norm(n, d)

PosInf == <<1, 0>>

NegInf == <<-1, 0>>

NaN == <<0, 0>>

Zero == Fin(0)

One == Fin(1)

IsNaN(a) == a = NaN

IsFinite(a) == a[2] # 0

IsInteger(a) == a[2] = 1

FNeg(a) == <<-a[1], a[2]>>

FAbs(a) == <<Abs(a[1]), a[2]>>

FAdd(a, b) ==
    IF IsNaN(a) \/ IsNaN(b) THEN NaN
    ELSE IF a[2] = 0 /\ b[2] = 0 THEN (IF a = b THEN a ELSE NaN)
    ELSE Norm(a[1] * b[2] + b[1] * a[2], a[2] * b[2])

FSub(a, b) == FAdd(a, FNeg(b))

FMul(a, b) ==
    IF IsNaN(a) \/ IsNaN(b) THEN NaN
    ELSE Norm(a[1] * b[1], a[2] * b[2])

FRecip(b) ==
    IF IsNaN(b) THEN NaN
    ELSE IF b[2] = 0 THEN Zero
    ELSE Norm(b[2], b[1])

FDiv(a, b) == FMul(a, FRecip(b))

FLt(a, b) ==
    /\ ~IsNaN(a)
    /\ ~IsNaN(b)
    /\ IF a[2] = 0 /\ b[2] = 0 THEN a[1] < b[1]
       ELSE a[1] * b[2] < b[1] * a[2]

FLe(a, b) == ~IsNaN(a) /\ ~IsNaN(b) /\ (a = b \/ FLt(a, b))

FSq(a) == FMul(a, a)

RECURSIVE FPow(_, _)
FPow(a, k) == IF k = 0 THEN One ELSE FMul(a, FPow(a, k - 1))

(* Chebyshev polynomials: T_n(cos t) = cos(n t), T_n(cosh t) = cosh(n t),  *)
(* and sin(n t) = sin(t) * U_(n-1)(cos t).                                 *)
RECURSIVE ChebT(_, _)
ChebT(n, c) ==
    IF n = 0 THEN One
    ELSE IF n = 1 THEN c
    ELSE FSub(FMul(FMul(Fin(2), c), ChebT(n - 1, c)), ChebT(n - 2, c))

RECURSIVE ChebU(_, _)
ChebU(n, c) ==
    IF n = 0 THEN One
    ELSE IF n = 1 THEN FMul(Fin(2), c)
    ELSE FSub(FMul(FMul(Fin(2), c), ChebU(n - 1, c)), ChebU(n - 2, c))

----------------------------------------------------------------------------
(* Outcomes of a call: an error raised, or the values returned *)

Raise(e) == [tag |-> "error", err |-> e, val |-> <<>>]

Return(t, v) == [tag |-> t, err |-> "", val |-> v]

Pending == [tag |-> "pending", err |-> "", val |-> <<>>]

Kinds ==
    {"gaussian", "hyperbolic", "long_tail", "reciprocal",
     "cosine", "linear", "quadratic", "tanh_squared"}

----------------------------------------------------------------------------
(* The sigmoid evaluator, one element at a time.  d is the normalized      *)
(* distance, v the validated value_at_1.                                   *)

(* Mutant: the strict range for every kind                                *)
ValueAt1Ok_strict(value_at_1, kind) ==
    FLt(Zero, value_at_1) /\ FLt(value_at_1, One)

(* Mutant: an unrecognized kind is not validated before dispatch           *)
ValueAt1Ok_known_only(value_at_1, kind) ==
    IF kind \in {"cosine", "linear", "quadratic"}
    THEN FLe(Zero, value_at_1) /\ FLt(value_at_1, One)
    ELSE kind \in Kinds => (FLt(Zero, value_at_1) /\ FLt(value_at_1, One))

(* `0 <= value_at_1 < 1` for cosine, linear, quadratic; `0 < value_at_1 < 1` *)
(* for every other kind, recognized or not.                                *)
ValueAt1Ok(value_at_1, kind) ==
    IF kind \in {"cosine", "linear", "quadratic"}
    THEN FLe(Zero, value_at_1) /\ FLt(value_at_1, One)
    ELSE FLt(Zero, value_at_1) /\ FLt(value_at_1, One)

(* scale = sqrt(-2 ln v); exp(-0.5 (d scale)^2) = exp(d^2 ln v) = v^(d^2)  *)
Gaussian(d, v) ==
    CASE IsNaN(d) -> NaN
      [] ~IsFinite(d) /\ ~IsNaN(d) -> Zero
      [] IsInteger(d) -> FPow(v, d[1] * d[1])

(* scale = arccosh(1/v); 1 / cosh(d scale) = 1 / T_|d|(1/v)                *)
Hyperbolic(d, v) ==
    CASE IsNaN(d) -> NaN
      [] ~IsFinite(d) /\ ~IsNaN(d) -> Zero
      [] IsInteger(d) -> FRecip(ChebT(Abs(d[1]), FRecip(v)))

(* Mutant: scale = 1/v - 1, the square root forgotten                     *)
LongTail_no_sqrt(d, v) ==
    LET scale == FSub(FRecip(v), One)
    IN  FRecip(FAdd(FSq(FMul(d, scale)), One))

(* scale = sqrt(1/v - 1); 1 / ((d scale)^2 + 1), (d scale)^2 = d^2 (1/v - 1) *)
LongTail(d, v) ==
    LET scale2 == FSub(FRecip(v), One)
    IN  FRecip(FAdd(FMul(FSq(d), scale2), One))

(* scale = 1/v - 1; 1 / (|d| scale + 1)                                    *)
Reciprocal(d, v) ==
    LET scale == FSub(FRecip(v), One)
    IN  FRecip(FAdd(FMul(FAbs(d), scale), One))

(* scale = arccos(2v - 1) / pi; |d scale| < 1 is |d| arccos(c) < pi, that  *)
(* is sin(k arccos(c)) > 0 for k = 1 .. |d|, with c = 2v - 1.              *)
CosineInside(d, v) ==
    LET c == FSub(FMul(Fin(2), v), One)
    IN  /\ IsFinite(d)
        /\ \/ d = Zero
           \/ /\ FLt(Fin(-1), c)
              /\ \A k \in 1..Abs(d[1]) : FLt(Zero, ChebU(k - 1, c))

(* np.where(abs(scaled_x) < 1, (1 + cos(pi scaled_x)) / 2, 0.0), with      *)
(* cos(pi d scale) = cos(d arccos(c)) = T_|d|(c)                           *)
Cosine(d, v) ==
    LET c == FSub(FMul(Fin(2), v), One)
    IN  CASE ~IsFinite(d) -> Zero
          [] IsInteger(d) ->
                IF CosineInside(d, v)
                THEN FDiv(FAdd(One, ChebT(Abs(d[1]), c)), Fin(2))
                ELSE Zero

(* Mutant: 1 - scaled_x without the cut-off                               *)
Linear_no_cutoff(d, v) ==
    LET scale == FSub(One, v)
        scaled_x == FMul(d, scale)
    IN  FSub(One, scaled_x)

(* scale = 1 - v; np.where(abs(scaled_x) < 1, 1 - scaled_x, 0.0)           *)
Linear(d, v) ==
    LET scale == FSub(One, v)
        scaled_x == FMul(d, scale)
    IN  IF FLt(FAbs(scaled_x), One) THEN FSub(One, scaled_x) ELSE Zero

(* scale = sqrt(1 - v); np.where(abs(scaled_x) < 1, 1 - scaled_x**2, 0.0), *)
(* scaled_x^2 = d^2 (1 - v) and |scaled_x| < 1 iff scaled_x^2 < 1          *)
Quadratic(d, v) ==
    LET scaled_x2 == FMul(FSq(d), FSub(One, v))
    IN  IF FLt(scaled_x2, One) THEN FSub(One, scaled_x2) ELSE Zero

(* scale = arctanh(sqrt(1 - v)), so cosh(scale)^2 = 1/v and                *)
(* 1 - tanh(d scale)^2 = 1 / cosh(d scale)^2 = 2 / (cosh(2 d scale) + 1)   *)
(*                     = 2 / (T_|d|(2/v - 1) + 1)                          *)
TanhSquared(d, v) ==
    CASE IsNaN(d) -> NaN
      [] ~IsFinite(d) /\ ~IsNaN(d) -> Zero
      [] IsInteger(d) ->
            FDiv(Fin(2), FAdd(ChebT(Abs(d[1]), FSub(FDiv(Fin(2), v), One)), One))

Shape(kind, d, v) ==
    CASE kind = "gaussian" -> Gaussian(d, v)
      [] kind = "hyperbolic" -> Hyperbolic(d, v)
      [] kind = "long_tail" -> LongTail(d, v)
      [] kind = "reciprocal" -> Reciprocal(d, v)
      [] kind = "cosine" -> Cosine(d, v)
      [] kind = "linear" -> Linear(d, v)
      [] kind = "quadratic" -> Quadratic(d, v)
      [] kind = "tanh_squared" -> TanhSquared(d, v)

(* The numpy evaluator: validation, then dispatch, elementwise over d.     *)
_sigmoids(d, value_at_1, kind) ==
    IF ~ValueAt1Ok(value_at_1, kind) THEN Raise("invalid-parameter")
    ELSE IF kind \in Kinds
         THEN Return("ndarray", [i \in DOMAIN d |-> Shape(kind, d[i], value_at_1)])
         ELSE Raise("unknown-shape")

(* The tensor evaluator: the same, except that its cosine branch ends in   *)
(* np.where, whose result is a numpy array and not a tensor.               *)
_sigmoids_tensor(d, value_at_1, kind) ==
    IF ~ValueAt1Ok(value_at_1, kind) THEN Raise("invalid-parameter")
    ELSE IF kind \in Kinds
         THEN Return(IF kind = "cosine" THEN "ndarray" ELSE "tensor",
                     [i \in DOMAIN d |-> Shape(kind, d[i], value_at_1)])
         ELSE Raise("unknown-shape")

----------------------------------------------------------------------------
(* The tolerance scorer *)

(* Mutant: exclusive bounds                                                *)
in_bounds_exclusive(xs, lower, upper) ==
    [i \in DOMAIN xs |-> FLt(lower, xs[i]) /\ FLt(xs[i], upper)]

in_bounds(xs, lower, upper) ==
    [i \in DOMAIN xs |-> FLe(lower, xs[i]) /\ FLe(xs[i], upper)]

(* Mutant: (x - upper) / margin on both sides                             *)
Distance_one_sided(xs, lower, upper, m) ==
    [i \in DOMAIN xs |-> FDiv(FSub(xs[i], upper), m)]

(* np.where(x < lower, lower - x, x - upper) / margin                      *)
Distance(xs, lower, upper, m) ==
    [i \in DOMAIN xs |->
        FDiv(IF FLt(xs[i], lower) THEN FSub(lower, xs[i]) ELSE FSub(xs[i], upper), m)]

Where(cond, a, b) == [i \in DOMAIN cond |-> IF cond[i] THEN a[i] ELSE b[i]]

Fill(xs, a) == [i \in DOMAIN xs |-> a]

(* Mutant: the evaluator is called, and validates, when margin == 0 too   *)
tolerance_always_evaluates(xs, isscalar, bnds, m, kind, v) ==
    LET lower == bnds[1]
        upper == bnds[2]
        inb == in_bounds(xs, lower, upper)
        result(val) == Return(IF isscalar THEN "float" ELSE "ndarray", val)
        s == _sigmoids(Fill(xs, Zero), v, kind)
    IN  IF FLt(upper, lower) THEN Raise("invalid-bounds")
        ELSE IF FLt(m, Zero) THEN Raise("invalid-margin")
        ELSE IF s.tag = "error" THEN s
        ELSE IF m = Zero THEN result(Where(inb, Fill(xs, One), Fill(xs, Zero)))
        ELSE LET s2 == _sigmoids(Distance(xs, lower, upper, m), v, kind)
             IN  result(Where(inb, Fill(xs, One), s2.val))

tolerance(xs, isscalar, bnds, m, kind, v) ==
    LET lower == bnds[1]
        upper == bnds[2]
        inb == in_bounds(xs, lower, upper)
        result(val) == Return(IF isscalar THEN "float" ELSE "ndarray", val)
    IN  IF FLt(upper, lower) THEN Raise("invalid-bounds")
        ELSE IF FLt(m, Zero) THEN Raise("invalid-margin")
        ELSE IF m = Zero THEN result(Where(inb, Fill(xs, One), Fill(xs, Zero)))
        ELSE LET s == _sigmoids(Distance(xs, lower, upper, m), v, kind)
             IN  IF s.tag = "error" THEN s
                 ELSE result(Where(inb, Fill(xs, One), s.val))

(* Mutant: the margin is checked before the bounds                        *)
tolerance_tensor_margin_first(xs, bnds, m, kind, v) ==
    LET lower == bnds[1]
        upper == bnds[2]
        inb == in_bounds(xs, lower, upper)
    IN  IF FLt(m, Zero) THEN Raise("invalid-margin")
        ELSE IF FLt(upper, lower) THEN Raise("invalid-bounds")
        ELSE IF m = Zero THEN Return("tensor", Where(inb, Fill(xs, One), Fill(xs, Zero)))
        ELSE LET s == _sigmoids_tensor(Distance(xs, lower, upper, m), v, kind)
             IN  IF s.tag = "error" THEN s
                 ELSE IF s.tag # "tensor" THEN Raise("TypeError")
                 ELSE Return("tensor", Where(inb, Fill(xs, One), s.val))

(* torch.where(in_bounds, 1.0, other) takes a tensor or a number as other: *)
(* the numpy array of the cosine branch is a TypeError.                    *)
tolerance_tensor(xs, bnds, m, kind, v) ==
    LET lower == bnds[1]
        upper == bnds[2]
        inb == in_bounds(xs, lower, upper)
    IN  IF FLt(upper, lower) THEN Raise("invalid-bounds")
        ELSE IF FLt(m, Zero) THEN Raise("invalid-margin")
        ELSE IF m = Zero THEN Return("tensor", Where(inb, Fill(xs, One), Fill(xs, Zero)))
        ELSE LET s == _sigmoids_tensor(Distance(xs, lower, upper, m), v, kind)
             IN  IF s.tag = "error" THEN s
                 ELSE IF s.tag # "tensor" THEN Raise("TypeError")
                 ELSE Return("tensor", Where(inb, Fill(xs, One), s.val))

----------------------------------------------------------------------------
(* One call of each backend on the same inputs *)

XSet == {Fin(n) : n \in -MaxX..MaxX}

BoundSet == {NegInf, Fin(-1), Zero, One, PosInf}

MarginSet == {Fin(-1), Zero, One, Fin(2)}

KindSet == Kinds \cup {"bogus"}

ValueSet == {Rat(-1, 2), Zero, Rat(1, 4), Rat(1, 2), One}

Arrays == UNION {[1..n -> XSet] : n \in 1..MaxLen}

Transcendental == {"gaussian", "hyperbolic", "cosine", "tanh_squared"}

(* The transcendental shapes are evaluated at integral or non-finite       *)
(* normalized distances only.                                              *)
Representable(xs, bnds, m, kind) ==
    (kind \in Transcendental /\ FLt(Zero, m)) =>
        \A i \in DOMAIN xs :
            LET d == Distance(xs, bnds[1], bnds[2], m)[i]
            IN  ~IsFinite(d) \/ IsInteger(d)

Threads == 1..NThreads

IdleThreads ==
    /\ filters = 1
    /\ heap = << <<>> >>
    /\ original = <<>>
    /\ args = [t \in Threads |-> <<>>]
    /\ pc = [t \in Threads |-> "done"]
    /\ saved = [t \in Threads |-> 0]
    /\ warned = [t \in Threads |-> "none"]
    /\ outcome = [t \in Threads |-> Pending]

Init ==
    /\ x \in Arrays
    /\ scalar \in {b \in BOOLEAN : b => Len(x) = 1}
    /\ bounds \in BoundSet \X BoundSet
    /\ margin \in MarginSet
    /\ sigmoid \in KindSet
    /\ value_at_margin \in ValueSet
    /\ Representable(x, bounds, margin, sigmoid)
    /\ value = Pending
    /\ value_tensor = Pending
    /\ IdleThreads

Tolerance ==
    /\ value = Pending
    /\ value' = tolerance(x, scalar, bounds, margin, sigmoid, value_at_margin)
    /\ UNCHANGED <<x, scalar, bounds, margin, sigmoid, value_at_margin, value_tensor>>
    /\ UNCHANGED threadVars

ToleranceTensor ==
    /\ value_tensor = Pending
    /\ value_tensor' = tolerance_tensor(x, bounds, margin, sigmoid, value_at_margin)
    /\ UNCHANGED <<x, scalar, bounds, margin, sigmoid, value_at_margin, value>>
    /\ UNCHANGED threadVars

Next == Tolerance \/ ToleranceTensor

Spec == Init /\ [][Next]_vars

----------------------------------------------------------------------------
(* Properties of a call *)

lower == bounds[1]

upper == bounds[2]

Inside(i) == FLe(lower, x[i]) /\ FLe(x[i], upper)

(* The range of value_at_margin the kind allows *)
Allowed(kind, v) ==
    IF kind \in {"cosine", "linear", "quadratic"}
    THEN FLe(Zero, v) /\ FLt(v, One)
    ELSE FLt(Zero, v) /\ FLt(v, One)

(* The call passes every validation *)
Valid ==
    /\ FLe(lower, upper)
    /\ FLe(Zero, margin)
    /\ FLt(Zero, margin) => (sigmoid \in Kinds /\ Allowed(sigmoid, value_at_margin))

Returned == value.tag \in {"float", "ndarray"}

(* Distance of x[i] past the bound it violates *)
Excess(i) == IF FLt(x[i], lower) THEN FSub(lower, x[i]) ELSE FSub(x[i], upper)

C2_ValueAtMargin ==
    (value # Pending /\ Valid /\ FLt(Zero, margin)) =>
        /\ Returned
        /\ \A i \in DOMAIN x :
              (x[i] = FAdd(upper, margin) \/ x[i] = FSub(lower, margin)) =>
                  value.val[i] = value_at_margin

(* Both sides at once, for linear with value_at_margin == 0.               *)
C2_Witness ==
    /\ value # Pending /\ Valid /\ FLt(Zero, margin)
    /\ sigmoid = "linear" /\ value_at_margin = Zero
    /\ \E i, j \in DOMAIN x :
          /\ x[i] = FAdd(upper, margin) /\ value.val[i] = Zero
          /\ x[j] = FSub(lower, margin) /\ value.val[j] = Zero

(* C3: with margin == 0 and lower <= upper the call returns 1.0 inside and *)
(* 0.0 outside, whatever the kind and value_at_margin: no error is raised. *)
C3_HardIndicator ==
    (value # Pending /\ margin = Zero /\ FLe(lower, upper)) =>
        /\ Returned
        /\ DOMAIN value.val = DOMAIN x
        /\ \A i \in DOMAIN x : value.val[i] = IF Inside(i) THEN One ELSE Zero

(* An unknown kind and a value_at_margin of 1, with an element inside and  *)
(* one outside.                                                            *)
C3_Witness ==
    /\ value # Pending /\ margin = Zero /\ FLe(lower, upper)
    /\ sigmoid \notin Kinds /\ value_at_margin = One
    /\ \E i, j \in DOMAIN x :
          /\ Inside(i) /\ value.val[i] = One
          /\ ~Inside(j) /\ value.val[j] = Zero

(* C4: every score of a validated call lies in [0.0, 1.0].                 *)
C4_Range ==
    (value # Pending /\ Valid) =>
        /\ Returned
        /\ \A i \in DOMAIN value.val :
              FLe(Zero, value.val[i]) /\ FLe(value.val[i], One)

(* An in-bounds element whose negative normalized distance the evaluator   *)
(* maps above 1, beside an element outside the bounds.                     *)
C4_Witness ==
    /\ value # Pending /\ Valid /\ FLt(Zero, margin) /\ sigmoid = "linear"
    /\ \E i, j \in DOMAIN x :
          /\ Inside(i)
          /\ FLt(One, Linear(FDiv(Excess(i), margin), value_at_margin))
          /\ value.val[i] = One
          /\ ~Inside(j) /\ FLt(value.val[j], One)

(* C5: of two elements outside the bounds on the same side, the one        *)
(* farther out does not score higher.                                      *)
C5_Monotone ==
    (value # Pending /\ Valid /\ FLt(Zero, margin)) =>
        /\ Returned
        /\ \A i, j \in DOMAIN x :
              (/\ ~Inside(i) /\ ~Inside(j)
               /\ FLt(x[i], lower) <=> FLt(x[j], lower)
               /\ FLe(Excess(i), Excess(j))) =>
                  FLe(value.val[j], value.val[i])

(* Two elements on one side across the cut-off of a piecewise shape.       *)
C5_Witness ==
    /\ value # Pending /\ Valid /\ FLt(Zero, margin)
    /\ sigmoid \in {"linear", "quadratic", "cosine"}
    /\ \E i, j \in DOMAIN x :
          /\ FLt(upper, x[i]) /\ FLt(x[i], x[j])
          /\ FLt(Zero, value.val[i]) /\ value.val[j] = Zero

(* C6: with margin > 0 a recognized kind whose value_at_margin is outside  *)
(* its allowed range fails with the invalid-parameter error, for every x;  *)
(* value_at_margin == 0 succeeds for linear, cosine and quadratic.         *)
C6_InvalidParameter ==
    (/\ value # Pending /\ FLe(lower, upper) /\ FLt(Zero, margin)
     /\ sigmoid \in Kinds) =>
        /\ ~Allowed(sigmoid, value_at_margin) => value = Raise("invalid-parameter")
        /\ (value_at_margin = Zero /\ sigmoid \in {"linear", "cosine", "quadratic"})
              => Returned
        /\ (value_at_margin = Zero /\ sigmoid \notin {"linear", "cosine", "quadratic"})
              => value = Raise("invalid-parameter")

(* gaussian with value_at_margin == 0 fails although every element is in   *)
(* bounds.                                                                 *)
C6_Witness ==
    /\ value = Raise("invalid-parameter") /\ FLt(Zero, margin)
    /\ sigmoid = "gaussian" /\ value_at_margin = Zero
    /\ x # <<>>
    /\ \A i \in DOMAIN x : Inside(i)

(* C7 as stated: with margin > 0 an unrecognized kind fails with the       *)
(* unknown-shape error for every x and every value_at_margin.              *)
C7_AlwaysUnknownShape ==
    (/\ value # Pending /\ FLe(lower, upper) /\ FLt(Zero, margin)
     /\ sigmoid \notin Kinds) =>
        value = Raise("unknown-shape")

(* C7 amended: an unrecognized kind fails with the unknown-shape error     *)
(* when 0 < value_at_margin < 1 and with the invalid-parameter error       *)
(* otherwise, in both backends; it never returns a score.                  *)
C7_UnknownShape ==
    LET expected == IF FLt(Zero, value_at_margin) /\ FLt(value_at_margin, One)
                    THEN Raise("unknown-shape")
                    ELSE Raise("invalid-parameter")
    IN  (FLe(lower, upper) /\ FLt(Zero, margin) /\ sigmoid \notin Kinds) =>
            /\ value # Pending => value = expected
            /\ value_tensor # Pending => value_tensor = expected

C7_Witness ==
    /\ FLe(lower, upper) /\ FLt(Zero, margin) /\ sigmoid \notin Kinds
    /\ value_at_margin = Rat(1, 2)
    /\ x # <<>>
    /\ value = Raise("unknown-shape")
    /\ value_tensor = Raise("unknown-shape")

(* C8: in both backends lower > upper fails with the invalid-bounds error  *)
(* and, with valid bounds, margin < 0 fails with the invalid-margin error, *)
(* whatever x, kind and value_at_margin are.                               *)
C8_BoundsThenMargin ==
    LET expected == IF FLt(upper, lower) THEN Raise("invalid-bounds")
                    ELSE Raise("invalid-margin")
    IN  (FLt(upper, lower) \/ FLt(margin, Zero)) =>
            /\ value # Pending => value = expected
            /\ value_tensor # Pending => value_tensor = expected

(* Bounds and margin both invalid, with an unknown kind and an invalid     *)
(* value_at_margin: invalid-bounds is reported by both.                    *)
C8_Witness ==
    /\ FLt(upper, lower) /\ FLt(margin, Zero)
    /\ sigmoid \notin Kinds /\ value_at_margin = One
    /\ value = Raise("invalid-bounds")
    /\ value_tensor = Raise("invalid-bounds")

(* C9: on identical inputs the two backends fail with the same error or    *)
(* return the same scores, the tensor backend returning a tensor.          *)
C9_CrossBackend ==
    (value # Pending /\ value_tensor # Pending) =>
        \/ /\ value.tag = "error"
           /\ value_tensor = value
        \/ /\ Returned
           /\ value_tensor.tag = "tensor"
           /\ value_tensor.val = value.val

----------------------------------------------------------------------------
(* Concurrent calls.  The cosine branch of both evaluators runs            *)
(*     with warnings.catch_warnings():                                     *)
(*         warnings.filterwarnings(action="ignore", message=...)           *)
(*         cos_pi_scaled_x = cos(pi * scaled_x)                            *)
(* catch_warnings saves the list the attribute warnings.filters refers to, *)
(* installs a copy of it, and on exit puts the saved list back;            *)
(* filterwarnings inserts at the front of the list installed at that       *)
(* moment.  A filter list is a sequence of the actions of the filters that *)
(* match the warning of np.cos: "ignore" (the one installed here) and      *)
(* "error" (a process started with warnings turned into errors).           *)

ArgSet ==
    [backend : {"numpy", "tensor"},
     x : {<<One>>},
     bounds : {<<Zero, Zero>>, <<PosInf, PosInf>>},
     margin : {One},
     sigmoid : {"cosine", "linear"},
     value_at_margin : {Rat(1, 2)}]

(* What the call returns when nothing else runs *)
Alone(a) ==
    IF a.backend = "numpy"
    THEN tolerance(a.x, FALSE, a.bounds, a.margin, a.sigmoid, a.value_at_margin)
    ELSE tolerance_tensor(a.x, a.bounds, a.margin, a.sigmoid, a.value_at_margin)

ReachesCosine(a) ==
    /\ FLe(a.bounds[1], a.bounds[2])
    /\ FLt(Zero, a.margin)
    /\ ValueAt1Ok(a.value_at_margin, a.sigmoid)
    /\ a.sigmoid = "cosine"

(* np.cos warns "invalid value encountered in cos" at a non-finite         *)
(* argument; torch.cos does not warn.                                      *)
CosWarns(a) ==
    /\ a.backend = "numpy"
    /\ \E i \in DOMAIN a.x :
          ~IsFinite(Distance(a.x, a.bounds[1], a.bounds[2], a.margin)[i])

NotIgnore(f) == f # "ignore"

ConcInit ==
    /\ x = <<Zero>>
    /\ scalar = FALSE
    /\ bounds = <<Zero, Zero>>
    /\ margin = Zero
    /\ sigmoid = "gaussian"
    /\ value_at_margin = Rat(1, 2)
    /\ value = Pending
    /\ value_tensor = Pending
    /\ original \in {<<>>, <<"error">>}
    /\ heap = <<original>>
    /\ filters = 1
    /\ args \in [Threads -> ArgSet]
    /\ pc = [t \in Threads |-> "start"]
    /\ saved = [t \in Threads |-> 0]
    /\ warned = [t \in Threads |-> "none"]
    /\ outcome = [t \in Threads |-> Pending]

(* Validation and every branch but cosine touch no shared state.           *)
Call(t) ==
    /\ pc[t] = "start"
    /\ IF ReachesCosine(args[t])
       THEN /\ pc' = [pc EXCEPT ![t] = "enter"]
            /\ UNCHANGED outcome
       ELSE /\ pc' = [pc EXCEPT ![t] = "done"]
            /\ outcome' = [outcome EXCEPT ![t] = Alone(args[t])]
    /\ UNCHANGED <<filters, heap, original, args, saved, warned>>
    /\ UNCHANGED callVars

(* catch_warnings.__enter__: self._filters = self._module.filters          *)
Enter(t) ==
    /\ pc[t] = "enter"
    /\ saved' = [saved EXCEPT ![t] = filters]
    /\ pc' = [pc EXCEPT ![t] = "copy"]
    /\ UNCHANGED <<filters, heap, original, args, warned, outcome>>
    /\ UNCHANGED callVars

(* catch_warnings.__enter__: self._module.filters = self._filters[:]       *)
Copy(t) ==
    /\ pc[t] = "copy"
    /\ heap' = Append(heap, heap[saved[t]])
    /\ filters' = Len(heap) + 1
    /\ pc' = [pc EXCEPT ![t] = "filter"]
    /\ UNCHANGED <<original, args, saved, warned, outcome>>
    /\ UNCHANGED callVars

(* warnings.filterwarnings(action="ignore", ...): remove the entry if      *)
(* present, insert it at the front of warnings.filters                     *)
FilterWarnings(t) ==
    /\ pc[t] = "filter"
    /\ heap' = [heap EXCEPT ![filters] = <<"ignore">> \o SelectSeq(@, NotIgnore)]
    /\ pc' = [pc EXCEPT ![t] = "cos"]
    /\ UNCHANGED <<filters, original, args, saved, warned, outcome>>
    /\ UNCHANGED callVars

(* cos(pi * scaled_x): a warning issued meets the first filter of the list *)
(* installed at that moment                                                *)
Cos(t) ==
    /\ pc[t] = "cos"
    /\ warned' = [warned EXCEPT ![t] =
          IF ~CosWarns(args[t]) THEN "none"
          ELSE IF heap[filters] = <<>> THEN "shown"
          ELSE IF Head(heap[filters]) = "ignore" THEN "none"
          ELSE "raised"]
    /\ pc' = [pc EXCEPT ![t] = "exit"]
    /\ UNCHANGED <<filters, heap, original, args, saved, outcome>>
    /\ UNCHANGED callVars

(* catch_warnings.__exit__: self._module.filters = self._filters, then the *)
(* rest of the call, or the warning raised as an error                     *)
Exit(t) ==
    /\ pc[t] = "exit"
    /\ filters' = saved[t]
    /\ pc' = [pc EXCEPT ![t] = "done"]
    /\ outcome' = [outcome EXCEPT ![t] =
          IF warned[t] = "raised" THEN Raise("RuntimeWarning") ELSE Alone(args[t])]
    /\ UNCHANGED <<heap, original, args, saved, warned>>
    /\ UNCHANGED callVars

ConcNext ==
    \E t \in Threads :
        Call(t) \/ Enter(t) \/ Copy(t) \/ FilterWarnings(t) \/ Cos(t) \/ Exit(t)

ConcSpec == ConcInit /\ [][ConcNext]_vars

(* C10: under every interleaving each call ends as it does alone, no       *)
(* warning escapes, and once all calls have finished warnings.filters is   *)
(* what it was before the first call started.                              *)
C10_NoSharedState ==
    (\A t \in Threads : pc[t] = "done") =>
        /\ \A t \in Threads : outcome[t] = Alone(args[t]) /\ warned[t] = "none"
        /\ heap[filters] = original

====
